---------------------------- MODULE Spec2Model ----------------------------
(***************************************************************************)
(* Model of the two enum generators of one-time-utils:                     *)
(*   enums/csv/csv2enum/app/csv2enum.py       (the CSV tool)               *)
(*   enums/db/enum-builder/app/enum_builder.py (the DB tool)               *)
(*                                                                         *)
(* A Python str is a sequence of one-character strings.  Two characters    *)
(* outside ASCII are written as tokens: "RUB" is the rouble sign U+20BD    *)
(* and "CYR_ER" the Cyrillic capital letter Er U+0420.  A Python exception *)
(* is the name of its class; "" means no exception.                        *)
(***************************************************************************)
EXTENDS Integers, Sequences, FiniteSets, TLC

VARIABLES
    tool,           \* whose code runs: "csv" or "db"
    pc,             \* position of the script
    error,          \* class of the exception that ended the run, "" if none
    stdout,         \* what has been printed, one entry per print call
    built,          \* the per-row lines built so far (formatted / enum_format results)
    rows,           \* CSV: the rows of the file; DB: the result set of the query
    file_ok,        \* the file named on the command line can be opened
    enc,            \* CSV: sys.stdout.encoding
    idx,            \* CSV: number of rows the for loop has consumed
    dbms,           \* DB: db_params['dbms']
    password,       \* DB: db_params['password']
    remove_prefix,  \* DB: query_params['remove_prefix']
    remove_suffix,  \* DB: query_params['remove_suffix']
    attempts_left,  \* DB: attempts_left
    queried,        \* DB: queried
    db_uri,         \* DB: the URI get_uri returned, <<>> before
    log,            \* DB: what LOG.exception has logged
    prompts,        \* DB: number of getpass calls so far
    queries,        \* DB: number of SELECTs executed so far
    raw,            \* fmt: the raw name given to the formatter
    once,           \* fmt: the formatter's outcome on raw
    twice           \* fmt: the formatter's outcome on its own result

vars == <<tool, pc, error, stdout, built, rows, file_ok, enc, idx, dbms, password,
          remove_prefix, remove_suffix, attempts_left, queried, db_uri, log,
          prompts, queries, raw, once, twice>>

runVars == <<stdout, built, rows, file_ok, enc, idx>>
dbVars == <<dbms, password, attempts_left, queried, db_uri, log, prompts, queries>>
fmtVars == <<raw, once, twice>>

---------------------------------------------------------------------------
(* Python str primitives *)

LowerAZ == <<"a","b","c","d","e","f","g","h","i","j","k","l","m",
             "n","o","p","q","r","s","t","u","v","w","x","y","z">>
UpperAZ == <<"A","B","C","D","E","F","G","H","I","J","K","L","M",
             "N","O","P","Q","R","S","T","U","V","W","X","Y","Z">>

IsAsciiUpper(c) == \E i \in DOMAIN UpperAZ : UpperAZ[i] = c
IsAsciiLower(c) == \E i \in DOMAIN LowerAZ : LowerAZ[i] = c

\* str.lower() / str.upper() of one character
LowerChar(c) == IF IsAsciiUpper(c)
                THEN LowerAZ[CHOOSE i \in DOMAIN UpperAZ : UpperAZ[i] = c]
                ELSE c
UpperChar(c) == IF IsAsciiLower(c)
                THEN UpperAZ[CHOOSE i \in DOMAIN LowerAZ : LowerAZ[i] = c]
                ELSE c

\* the characters str.strip() removes and the regex class \s matches
Whitespace == {" ", "\t", "\n"}

Min(a, b) == IF a < b THEN a ELSE b
Max(a, b) == IF a > b THEN a ELSE b

\* the index a slice bound i denotes in a str of length n (negative: from the end)
SliceIndex(i, n) == IF i < 0 THEN Max(n + i, 0) ELSE Min(i, n)

\* s[i:] and s[:j]
SliceFrom(s, i) == SubSeq(s, SliceIndex(i, Len(s)) + 1, Len(s))
SliceTo(s, j) == SubSeq(s, 1, SliceIndex(j, Len(s)))

RECURSIVE lstrip(_)
lstrip(s) == IF s # <<>> /\ s[1] \in Whitespace THEN lstrip(Tail(s)) ELSE s

RECURSIVE rstrip(_)
rstrip(s) == IF s # <<>> /\ s[Len(s)] \in Whitespace
             THEN rstrip(SubSeq(s, 1, Len(s) - 1))
             ELSE s

\* str.strip()
strip(s) == rstrip(lstrip(s))

\* str.upper()
uppercase(s) == [i \in DOMAIN s |-> UpperChar(s[i])]

\* s.replace('__', '_'): one left-to-right pass over non-overlapping matches
RECURSIVE replace_double_underscore(_)
replace_double_underscore(s) ==
    IF Len(s) < 2 THEN s
    ELSE IF s[1] = "_" /\ s[2] = "_"
         THEN <<"_">> \o replace_double_underscore(SubSeq(s, 3, Len(s)))
         ELSE <<s[1]>> \o replace_double_underscore(Tail(s))

\* x.replace(RUB, CYR_ER)
changeRubSign(x) == [i \in DOMAIN x |-> IF x[i] = "RUB" THEN "CYR_ER" ELSE x[i]]

---------------------------------------------------------------------------
(* stringcase, as both tools import it *)

\* re.sub(r"[A-Z]", lambda m: '_' + lowercase(m.group(0)), s)
RECURSIVE underscore_capitals(_)
underscore_capitals(s) ==
    IF s = <<>> THEN s
    ELSE (IF IsAsciiUpper(s[1]) THEN <<"_", LowerChar(s[1])>> ELSE <<s[1]>>)
         \o underscore_capitals(Tail(s))

\* stringcase.snakecase
snakecase(str) ==
    LET s == [i \in DOMAIN str |->
                 IF str[i] \in {"-", "."} \cup Whitespace THEN "_" ELSE str[i]]
    IN  IF s = <<>> THEN s
        ELSE <<LowerChar(s[1])>> \o underscore_capitals(Tail(s))

\* stringcase.constcase
constcase(str) == uppercase(snakecase(str))

---------------------------------------------------------------------------
(* The identifier formatters.  An outcome is [err, val]: err is the class  *)
(* of the exception raised ("" if none), val the str returned.             *)

Returned(v) == [err |-> "", val |-> v]
Raised(e) == [err |-> e, val |-> <<>>]

\* a NULL of the database, None in Python
NULL == <<"None">>

\* csv2enum.remove_leading_underscore: s[0] raises IndexError on ''
remove_leading_underscore(s) ==
    IF s = <<>> THEN Raised("IndexError")
    ELSE Returned(IF s[1] # "_" THEN s ELSE SliceFrom(s, 1))

\* csv2enum.format_as_enum_attr
format_as_enum_attr(s) ==
    remove_leading_underscore(replace_double_underscore(constcase(s)))

\* format_attr gone wrong: the prefix is compared with the untrimmed name
format_attr_untrimmed_prefix(attr, prefix, suffix) ==
    IF attr = NULL THEN Raised("AttributeError")
    ELSE LET prefix_len == Len(prefix)
             suffix_len == Len(suffix)
             stripped0 == strip(attr)
             stripped1 == IF SliceTo(attr, prefix_len) = prefix
                          THEN SliceFrom(stripped0, prefix_len)
                          ELSE stripped0
             stripped2 == IF SliceFrom(stripped1, 0 - suffix_len) = suffix
                          THEN SliceTo(stripped1, 0 - suffix_len)
                          ELSE stripped1
         IN  Returned(replace_double_underscore(constcase(stripped2)))

\* enum_builder.print_formatted.format_attr; None has no strip()
format_attr(attr, prefix, suffix) ==
    IF attr = NULL THEN Raised("AttributeError")
    ELSE LET prefix_len == Len(prefix)
             suffix_len == Len(suffix)
             stripped0 == strip(attr)
             stripped1 == IF SliceTo(stripped0, prefix_len) = prefix
                          THEN SliceFrom(stripped0, prefix_len)
                          ELSE stripped0
             stripped2 == IF SliceFrom(stripped1, 0 - suffix_len) = suffix
                          THEN SliceTo(stripped1, 0 - suffix_len)
                          ELSE stripped1
         IN  Returned(replace_double_underscore(constcase(stripped2)))

---------------------------------------------------------------------------
(* Rows, lines and printing *)

RECURSIVE join(_, _)
\* sep.join(items)
join(sep, items) ==
    IF items = <<>> THEN <<>>
    ELSE IF Len(items) = 1 THEN items[1]
    ELSE items[1] \o sep \o join(sep, Tail(items))

\* csv2enum.quote
quote(x) == <<"\"">> \o changeRubSign(x) \o <<"\"">>

\* csv2enum, the body of the for loop up to uprint: row[0] raises IndexError on []
csv_formatted(row) ==
    IF row = <<>> THEN Raised("IndexError")
    ELSE LET enum_var == format_as_enum_attr(row[1])
         IN  IF enum_var.err # "" THEN enum_var
             ELSE Returned(enum_var.val \o <<"(">>
                           \o join(<<",", " ">>, [i \in 1..(Len(row) - 1) |-> quote(row[i + 1])])
                           \o <<")", ",">>)

\* the characters str.encode(enc, errors='ignore') keeps
Encodable(c, e) == e \in {"UTF-8", "utf-8"} \/ c \notin {"RUB", "CYR_ER"}

\* str(obj).encode(enc, errors='ignore').decode(enc)
lossy(s, e) == SelectSeq(s, LAMBDA c : Encodable(c, e))

\* csv2enum.uprint of one object with the default sep and end: the text written
uprint(obj, e) ==
    IF e = "UTF-8" THEN obj \o <<"\n">> ELSE lossy(obj, e) \o <<"\n">>

\* enum_builder.print_formatted.enum_format; '"' + None raises TypeError
enum_format(row, prefix, suffix) ==
    LET attr == format_attr(row[1], prefix, suffix)
    IN  IF attr.err # "" THEN attr
        ELSE IF \E i \in 2..Len(row) : row[i] = NULL THEN Raised("TypeError")
        ELSE Returned(attr.val \o <<"(">>
                      \o join(<<",">>, [i \in 1..(Len(row) - 1) |-> <<"\"">> \o row[i + 1] \o <<"\"">>])
                      \o <<")">>)

\* the list [enum_format(row) for row in rows]: the first exception ends it
enum_lines(rs, prefix, suffix) ==
    LET each == [i \in DOMAIN rs |-> enum_format(rs[i], prefix, suffix)]
    IN  IF \E i \in DOMAIN rs : each[i].err # ""
        THEN Raised(each[CHOOSE i \in DOMAIN rs :
                            /\ each[i].err # ""
                            /\ \A j \in 1..(i - 1) : each[j].err = ""].err)
        ELSE Returned([i \in DOMAIN rs |-> each[i].val])

\* print(*lines, sep=',\n', end=';'): the text written
print_enum(lines) == join(<<",", "\n">>, lines) \o <<";">>

Printed(kind, text) == [kind |-> kind, text |-> text]

---------------------------------------------------------------------------
(* The CSV tool *)

\* every str over A of length at most n
StrsUpTo(A, n) == UNION {[1..k -> A] : k \in 0..n}

\* the outcome of a formatter that has not been applied
NotRun == Raised("not run")

\* attempts_left = 3
Attempts == 3

\* the values of the variables a tool does not use
IdleRun ==
    /\ error = "" /\ stdout = <<>> /\ built = <<>> /\ rows = <<>>
    /\ file_ok = TRUE /\ enc = "UTF-8" /\ idx = 0

IdleDb ==
    /\ dbms = "" /\ password = "" /\ attempts_left = Attempts /\ queried = FALSE
    /\ db_uri = <<>> /\ log = <<>> /\ prompts = 0 /\ queries = 0

MaxRows == 2

V1 == <<"A">>
V2 == <<"1", "RUB">>
RunNames == {<<>>, <<"a">>, <<"a", "B">>, <<"_", "a">>}
ValueLists == {<<>>, <<V1>>, <<V1, V2>>, <<V2, V1>>}
Encodings == {"UTF-8", "utf-8", "ascii"}

\* what csv.reader yields for a line: [] for a blank one, else at least one field
CsvRows == {<<>>} \cup {<<n>> \o vs : n \in RunNames, vs \in ValueLists}
CsvFiles == StrsUpTo(CsvRows, MaxRows)

InitCsv ==
    /\ tool = "csv" /\ pc = "open"
    /\ file_ok \in BOOLEAN
    /\ enc \in Encodings
    /\ error = "" /\ stdout = <<>> /\ built = <<>> /\ rows = <<>> /\ idx = 0
    /\ IdleDb
    /\ remove_prefix = <<>> /\ remove_suffix = <<>>
    /\ raw = <<>> /\ once = NotRun /\ twice = NotRun

\* open(filename, ...) and csv.reader(csvfile, delimiter=';')
OpenCsv ==
    /\ tool = "csv" /\ pc = "open"
    /\ \/ /\ file_ok
          /\ \E f \in CsvFiles : rows' = f
          /\ pc' = "loop"
          /\ UNCHANGED error
       \/ /\ ~file_ok
          /\ error' = "FileNotFoundError"
          /\ pc' = "crashed"
          /\ UNCHANGED rows
    /\ UNCHANGED <<tool, stdout, built, file_ok, enc, idx, dbVars,
                   remove_prefix, remove_suffix, fmtVars>>

\* the loop body gone wrong: a row that cannot be formatted is skipped
CsvRowSkipping ==
    /\ tool = "csv" /\ pc = "loop"
    /\ idx < Len(rows)
    /\ LET formatted == csv_formatted(rows[idx + 1])
       IN  IF formatted.err # ""
           THEN /\ idx' = idx + 1
                /\ UNCHANGED <<stdout, built, error, pc>>
           ELSE /\ built' = Append(built, formatted.val)
                /\ stdout' = Append(stdout, Printed("line", uprint(formatted.val, enc)))
                /\ idx' = idx + 1
                /\ UNCHANGED <<error, pc>>
    /\ UNCHANGED <<tool, rows, file_ok, enc, dbVars, remove_prefix, remove_suffix, fmtVars>>

\* one iteration of `for row in reader`
CsvRow ==
    /\ tool = "csv" /\ pc = "loop"
    /\ idx < Len(rows)
    /\ LET formatted == csv_formatted(rows[idx + 1])
       IN  IF formatted.err # ""
           THEN /\ error' = formatted.err
                /\ pc' = "crashed"
                /\ UNCHANGED <<stdout, built, idx>>
           ELSE /\ built' = Append(built, formatted.val)
                /\ stdout' = Append(stdout, Printed("line", uprint(formatted.val, enc)))
                /\ idx' = idx + 1
                /\ UNCHANGED <<error, pc>>
    /\ UNCHANGED <<tool, rows, file_ok, enc, dbVars, remove_prefix, remove_suffix, fmtVars>>

\* the reader is exhausted: the with block and the script end
CsvEof ==
    /\ tool = "csv" /\ pc = "loop"
    /\ idx = Len(rows)
    /\ pc' = "done"
    /\ UNCHANGED <<tool, error, runVars, dbVars, remove_prefix, remove_suffix, fmtVars>>

---------------------------------------------------------------------------
(* The DB tool *)

\* class Dbms: POSTGRES = 'postgresql', is the tuple ('postgresql',) because of
\* the trailing comma; MSSQL = 'mssql+pyodbc' is the str
DbmsValue(d) ==
    IF d = "POSTGRES" THEN <<"postgresql">>
    ELSE <<"m","s","s","q","l","+","p","y","o","d","b","c">>

\* Dbms.scheme: self.value[0]
scheme(d) == DbmsValue(d)[1]

MssqlAliases == {"sql-server", "ms", "mssql", "ms-sql", "ms-sql-server",
                 "sqlserver", "sql_server"}
PostgresAliases == {"postgres", "postgresql", "psql", "pg", "pgsql", "posgres"}

\* get_dbms gone wrong: an alias that is not listed falls back to Postgres
get_dbms_default(alias) ==
    IF alias \in MssqlAliases THEN Returned("MSSQL")
    ELSE Returned("POSTGRES")

\* get_dbms
get_dbms(alias) ==
    IF alias \in MssqlAliases THEN Returned("MSSQL")
    ELSE IF alias \in PostgresAliases THEN Returned("POSTGRES")
    ELSE Raised("KeyError")

\* get_uri.format_uri, with the user, address and db of the configuration
format_uri(sch, pw) == <<sch, "://", "user", ":", pw, "@", "address", "/", "db">>

\* get_uri: the URI, or the KeyError it logs before exit()
get_uri(alias, pw) ==
    LET uniform_dbms == get_dbms(alias)
    IN  IF uniform_dbms.err # "" THEN uniform_dbms
        ELSE Returned(format_uri(scheme(uniform_dbms.val), pw))

\* the dialects sa.create_engine can load; any other scheme raises NoSuchModuleError
Dialects == {"postgresql", "mssql+pyodbc"}

\* what the user types at getpass, and the password the database accepts
Passwords == {"secret", "guess"}
CorrectPassword == "secret"

\* what the configuration file may hold
DbmsInputs == MssqlAliases \cup PostgresAliases \cup {"nosuchdb"}
RunPrefixes == {<<>>, <<"a">>}
RunSuffixes == {<<>>, <<"B">>}

\* result sets: every row holds the attribute column and the same number of
\* value columns; a column may be NULL
DbNames == RunNames \cup {NULL}
DbValueLists == ValueLists \cup {<<NULL>>}
DbRows(n) == {<<a>> \o vs : a \in DbNames, vs \in {v \in DbValueLists : Len(v) = n}}
DbResults == UNION {StrsUpTo(DbRows(n), MaxRows) : n \in 0..2}

DigitStr(n) == <<"0", "1", "2", "3", "4", "5", "6", "7", "8", "9">>[n + 1]

InitDb ==
    /\ tool = "db" /\ pc = "load"
    /\ file_ok \in BOOLEAN
    /\ enc = "UTF-8"
    /\ error = "" /\ stdout = <<>> /\ built = <<>> /\ rows = <<>> /\ idx = 0
    /\ IdleDb
    /\ remove_prefix = <<>> /\ remove_suffix = <<>>
    /\ raw = <<>> /\ once = NotRun /\ twice = NotRun

\* toml.load(filename) and the two sections; EnvironmentError is logged, then exit()
LoadConfig ==
    /\ tool = "db" /\ pc = "load"
    /\ \/ /\ file_ok
          /\ \E d \in DbmsInputs, p \in RunPrefixes, s \in RunSuffixes :
                dbms' = d /\ remove_prefix' = p /\ remove_suffix' = s
          /\ queried' = FALSE
          /\ attempts_left' = Attempts
          /\ pc' = "ask"
          /\ UNCHANGED log
       \/ /\ ~file_ok
          /\ log' = Append(log, "EnvironmentError")
          /\ pc' = "exited"
          /\ UNCHANGED <<dbms, remove_prefix, remove_suffix, queried, attempts_left>>
    /\ UNCHANGED <<tool, error, runVars, password, db_uri, prompts, queries, fmtVars>>

\* ask_password(db_params)
AskPassword ==
    /\ tool = "db" /\ pc = "ask"
    /\ \E typed \in Passwords : password' = typed
    /\ prompts' = prompts + 1
    /\ pc' = "engine"
    /\ UNCHANGED <<tool, error, runVars, dbms, attempts_left, queried, db_uri, log,
                   queries, remove_prefix, remove_suffix, fmtVars>>

\* get_engine, first call: db_uri = get_uri(db_params); an unknown alias is
\* logged and exit() ends the process
GetUri ==
    /\ tool = "db" /\ pc = "engine"
    /\ LET uri == get_uri(dbms, password)
       IN  IF uri.err # ""
           THEN /\ log' = Append(log, uri.err)
                /\ pc' = "exited"
                /\ UNCHANGED db_uri
           ELSE /\ db_uri' = uri.val
                /\ pc' = "create"
                /\ UNCHANGED log
    /\ UNCHANGED <<tool, error, runVars, dbms, password, attempts_left, queried, prompts,
                   queries, remove_prefix, remove_suffix, fmtVars>>

\* get_engine, second call: sa.create_engine(db_uri) loads the dialect the
\* scheme names and connects to nothing yet
CreateEngine ==
    /\ tool = "db" /\ pc = "create"
    /\ IF db_uri[1] \in Dialects
       THEN pc' = "query" /\ UNCHANGED error
       ELSE pc' = "crashed" /\ error' = "NoSuchModuleError"
    /\ UNCHANGED <<tool, runVars, dbVars, remove_prefix, remove_suffix, fmtVars>>

\* the handler gone wrong: the attempt is not counted
OperationalErrorHandlerNoDecrement ==
    /\ attempts_left' = attempts_left
    /\ IF attempts_left' > 0
       THEN /\ stdout' = Append(stdout, Printed("wrong",
                            <<"Wrong password! Attempts left:", " ", DigitStr(attempts_left'), "\n">>))
            /\ pc' = "ask"
       ELSE /\ stdout' = Append(stdout, Printed("farewell", <<"Better luck next time!", "\n">>))
            /\ pc' = "exited"

\* except sa.exc.OperationalError
OperationalErrorHandler ==
    /\ attempts_left' = attempts_left - 1
    /\ IF attempts_left' > 0
       THEN /\ stdout' = Append(stdout, Printed("wrong",
                            <<"Wrong password! Attempts left:", " ", DigitStr(attempts_left'), "\n">>))
            /\ pc' = "ask"
       ELSE /\ stdout' = Append(stdout, Printed("farewell", <<"Better luck next time!", "\n">>))
            /\ pc' = "exited"

\* rows = query(engine, query_params): connecting with a password the database
\* rejects raises OperationalError before the SELECT is executed
Query ==
    /\ tool = "db" /\ pc = "query"
    /\ IF password = CorrectPassword
       THEN /\ \E rs \in DbResults : rows' = rs
            /\ queries' = queries + 1
            /\ pc' = "print"
            /\ UNCHANGED <<attempts_left, stdout>>
       ELSE /\ OperationalErrorHandler
            /\ UNCHANGED <<rows, queries>>
    /\ UNCHANGED <<tool, error, built, file_ok, enc, idx, dbms, password, queried,
                   db_uri, log, prompts, remove_prefix, remove_suffix, fmtVars>>

\* print_formatted(rows, query_params); queried = True; the while loop ends
PrintFormatted ==
    /\ tool = "db" /\ pc = "print"
    /\ LET lines == enum_lines(rows, remove_prefix, remove_suffix)
       IN  IF lines.err # ""
           THEN /\ error' = lines.err
                /\ pc' = "crashed"
                /\ UNCHANGED <<stdout, built, queried>>
           ELSE /\ built' = lines.val
                /\ stdout' = Append(stdout, Printed("enum", print_enum(lines.val)))
                /\ queried' = TRUE
                /\ pc' = "done"
                /\ UNCHANGED error
    /\ UNCHANGED <<tool, rows, file_ok, enc, idx, dbms, password, attempts_left,
                   db_uri, log, prompts, queries, remove_prefix, remove_suffix, fmtVars>>

---------------------------------------------------------------------------
(* A run of either tool *)

Init == InitCsv \/ InitDb

Next ==
    \/ OpenCsv \/ CsvRow \/ CsvEof
    \/ LoadConfig \/ AskPassword \/ GetUri \/ CreateEngine \/ Query \/ PrintFormatted

Spec == Init /\ [][Next]_vars

Terminated == pc \in {"done", "exited", "crashed"}

---------------------------------------------------------------------------
(* The formatters applied alone: SpecFmt draws a raw name and the options  *)
(* from bounded sets and applies the formatter of one tool, then applies   *)
(* it again to its own result.                                             *)

MaxLen == 4
MaxAffix == 1

FmtAlphabet == {"a", "B", "_", " "}
AffixAlphabet == {"a", "_"}

\* the names of section 8 of the specification, and two more
UserName == <<"u","s","e","r","N","a","m","e">>
InternalFlag == <<"_","i","n","t","e","r","n","a","l","F","l","a","g">>
SomeValue == <<" "," ","s","o","m","e"," "," ","v","a","l","u","e"," "," ">>
TblStatusCode == <<"t","b","l","_","s","t","a","t","u","s","C","o","d","e">>
CustomerId == <<"c","u","s","t","o","m","e","r","_","i","d">>
DoubleSpaceCapital == <<"a"," "," ","B">>
Tbl == <<"t","b","l","_">>
Id == <<"_","i","d">>

ExampleNames == {UserName, InternalFlag, SomeValue, DoubleSpaceCapital}
ExampleAttrs == {<<TblStatusCode, Tbl, <<>> >>, <<CustomerId, <<>>, Id>>,
                 <<InternalFlag, <<>>, <<>> >>, <<UserName, <<>>, <<>> >>,
                 <<DoubleSpaceCapital, <<>>, <<>> >>}

\* the formatter of the tool: format_as_enum_attr(s) or format_attr(s)
Format(t, s, prefix, suffix) ==
    IF t = "csv" THEN format_as_enum_attr(s) ELSE format_attr(s, prefix, suffix)

InitFmt ==
    /\ pc = "fmt_start"
    /\ once = NotRun /\ twice = NotRun
    /\ IdleRun /\ IdleDb
    /\ \/ /\ tool = "csv"
          /\ raw \in StrsUpTo(FmtAlphabet, MaxLen) \cup ExampleNames
          /\ remove_prefix = <<>> /\ remove_suffix = <<>>
       \/ /\ tool = "db"
          /\ \/ /\ raw \in StrsUpTo(FmtAlphabet, MaxLen)
                /\ remove_prefix \in StrsUpTo(AffixAlphabet, MaxAffix)
                /\ remove_suffix \in StrsUpTo(AffixAlphabet, MaxAffix)
             \/ \E e \in ExampleAttrs :
                   raw = e[1] /\ remove_prefix = e[2] /\ remove_suffix = e[3]

FormatOnce ==
    /\ pc = "fmt_start"
    /\ once' = Format(tool, raw, remove_prefix, remove_suffix)
    /\ pc' = "fmt_once"
    /\ UNCHANGED <<tool, error, runVars, dbVars, remove_prefix, remove_suffix, raw, twice>>

FormatTwice ==
    /\ pc = "fmt_once"
    /\ once.err = ""
    /\ twice' = Format(tool, once.val, remove_prefix, remove_suffix)
    /\ pc' = "fmt_twice"
    /\ UNCHANGED <<tool, error, runVars, dbVars, remove_prefix, remove_suffix, raw, once>>

NextFmt == FormatOnce \/ FormatTwice

SpecFmt == InitFmt /\ [][NextFmt]_vars

---------------------------------------------------------------------------
(* What the claims speak of *)

StartsWith(s, p) == Len(p) <= Len(s) /\ SubSeq(s, 1, Len(p)) = p
EndsWith(s, p) == Len(p) <= Len(s) /\ SubSeq(s, Len(s) - Len(p) + 1, Len(s)) = p

\* s without a non-empty prefix p it starts with / a non-empty suffix p it ends with
WithoutPrefix(s, p) ==
    IF p # <<>> /\ StartsWith(s, p) THEN SubSeq(s, Len(p) + 1, Len(s)) ELSE s
WithoutSuffix(s, p) ==
    IF p # <<>> /\ EndsWith(s, p) THEN SubSeq(s, 1, Len(s) - Len(p)) ELSE s

\* steps 1 to 3 of the formatter's contract
Stripped(s, prefix, suffix) == WithoutSuffix(WithoutPrefix(strip(s), prefix), suffix)

HasDoubleUnderscore(s) == \E i \in 1..(Len(s) - 1) : s[i] = "_" /\ s[i + 1] = "_"

PrintsOf(kind) == {i \in DOMAIN stdout : stdout[i].kind = kind}

\* the while loop has been entered: its first statement has run
LoopEntered == tool = "db" /\ prompts > 0

EndedBySuccess ==
    /\ pc = "done" /\ queried /\ queries = 1 /\ error = "" /\ log = <<>>
    /\ prompts = (Attempts - attempts_left) + 1
    /\ PrintsOf("enum") = {Len(stdout)}
    /\ PrintsOf("farewell") = {}

EndedByExhaustion ==
    /\ pc = "exited" /\ ~queried /\ queries = 0 /\ error = "" /\ log = <<>>
    /\ attempts_left = 0 /\ prompts = Attempts
    /\ PrintsOf("farewell") = {Len(stdout)}
    /\ stdout[Len(stdout)].text = <<"Better luck next time!", "\n">>
    /\ PrintsOf("enum") = {}

EndedByOtherError ==
    /\ ~queried /\ PrintsOf("enum") = {} /\ PrintsOf("farewell") = {}
    /\ \/ pc = "exited" /\ log = <<"KeyError">> /\ error = ""
       \/ pc = "crashed" /\ error \notin {"", "OperationalError"} /\ log = <<>>

\* C1 as claimed: at most 3 prompts, and the loop ends only right after the
\* first successful attempt or right after the third authentication failure.
C1_EndsBySuccessOrExhaustion ==
    tool = "db" =>
        /\ prompts <= Attempts
        /\ (LoopEntered /\ Terminated) => (EndedBySuccess \/ EndedByExhaustion)

C1_Counts ==
    tool = "db" =>
        /\ attempts_left \in 0..Attempts
        /\ prompts <= Attempts
        /\ Cardinality(PrintsOf("wrong") \cup PrintsOf("farewell")) = Attempts - attempts_left
        /\ (pc = "ask" => attempts_left > 0 /\ prompts = Attempts - attempts_left)
        /\ (pc \in {"engine", "create", "query", "print"} =>
                attempts_left > 0 /\ prompts = (Attempts - attempts_left) + 1)
        /\ (LoopEntered /\ Terminated) =>
                (EndedBySuccess \/ EndedByExhaustion \/ EndedByOtherError)

C1_FailureStep ==
    (tool = "db" /\ pc = "query" /\ password # CorrectPassword) =>
        /\ attempts_left' = attempts_left - 1
        /\ queries' = queries /\ prompts' = prompts
        /\ IF attempts_left' > 0
           THEN pc' = "ask"
           ELSE pc' = "exited" /\ stdout'[Len(stdout')].kind = "farewell"

\* how far the DB tool is from its end: the attempts left, then the position
\* within the iteration
Rank(p) ==
    CASE p = "load" -> 6 [] p = "ask" -> 5 [] p = "engine" -> 4
      [] p = "create" -> 3 [] p = "query" -> 2 [] p = "print" -> 1
      [] OTHER -> 0
Distance == attempts_left * 6 + Rank(pc)

\* every step of the DB tool brings it nearer to its end
C1_Progress == tool = "db" => Distance' < Distance

\* between a prompt and the outcome of the query the DB tool is never stuck
C1_NotStuck ==
    (tool = "db" /\ pc \in {"ask", "engine", "create", "query"}) =>
        ENABLED (AskPassword \/ GetUri \/ CreateEngine \/ Query)

\* C1, amended: in the DB tool's main loop the password is prompted at most 3
\* times in any run; each authentication failure consumes one of 3 attempts and
\* leads to a new prompt while attempts remain; the loop always ends (every step
\* brings the run nearer to its end and the loop is never stuck): right after
\* the first attempt whose query and formatting succeed (output printed exactly
\* once), right after the third authentication failure (farewell printed, no enum
\* output), or when another error ends the run first (an unknown alias is logged
\* and the process exits, any other exception is not caught), with no enum output.
C1_RetryLoop ==
    /\ [](C1_Counts /\ C1_NotStuck)
    /\ [][C1_FailureStep /\ C1_Progress]_vars

\* C1: a run that reached its third authentication failure.
C1_Witness ==
    /\ tool = "db" /\ EndedByExhaustion
    /\ Len(stdout) = Attempts

\* C2: when the configured alias is not in the lookup table, the run goes from
\* the first prompt to get_uri and ends there: the error is logged, the loop has
\* no second iteration, no attempt is consumed, no query is executed and nothing
\* is printed.
C2_UnknownDbmsTerminates ==
    (tool = "db" /\ dbms # "" /\ dbms \notin (MssqlAliases \cup PostgresAliases)) =>
        /\ pc \in {"ask", "engine", "exited"}
        /\ (pc = "ask" => prompts = 0 /\ log = <<>>)
        /\ (pc = "engine" => prompts = 1 /\ log = <<>>)
        /\ (pc = "exited" => prompts = 1 /\ log = <<"KeyError">> /\ ~ENABLED Next)
        /\ attempts_left = Attempts /\ ~queried
        /\ queries = 0 /\ db_uri = <<>> /\ rows = <<>>
        /\ stdout = <<>> /\ built = <<>> /\ error = ""

\* C2: the run with the alias "nosuchdb" has ended.
C2_Witness == tool = "db" /\ dbms = "nosuchdb" /\ pc = "exited"

\* C3 as claimed: the scheme of the URI is the full scheme of the alias's
\* DBMS, 'postgresql' for every Postgres alias and 'mssql+pyodbc' for every SQL
\* Server alias, and an unlisted alias yields no URI.
C3_SchemeOfAlias ==
    (tool = "db" /\ pc \notin {"load", "ask", "engine"} /\ prompts > 0) =>
        /\ dbms \in PostgresAliases => db_uri # <<>> /\ db_uri[1] = "postgresql"
        /\ dbms \in MssqlAliases => db_uri # <<>> /\ db_uri[1] = "mssql+pyodbc"
        /\ dbms \notin (MssqlAliases \cup PostgresAliases) =>
                db_uri = <<>> /\ log = <<"KeyError">>

\* the name-source field of the row a built line comes from, after steps 1 to 3
NameSource(i) == Stripped(rows[i][1], remove_prefix, remove_suffix)

\* C6 as claimed: no line is built for a row whose name-source field is empty
\* or becomes empty after trimming and prefix/suffix stripping (the formatter
\* raises instead), in either tool, and no built line has an empty identifier.
C6_EmptyNameFails ==
    \A i \in DOMAIN built :
        /\ NameSource(i) # <<>>
        /\ built[i][1] # "("

\* the line the row formatter's contract gives for a row: IDENT(V1,V2,...)
ContractLine(row) ==
    Format(tool, row[1], remove_prefix, remove_suffix).val
    \o <<"(">>
    \o join(<<",">>, [i \in 1..(Len(row) - 1) |-> <<"\"">> \o row[i + 1] \o <<"\"">>])
    \o <<")">>

\* C7 as claimed: every line built for a row is exactly IDENT(V1,V2,...), with
\* ',' and no space between the quoted values and nothing after ')'.
C7_LineShape ==
    \A i \in DOMAIN built : built[i] = ContractLine(rows[i])

\* a CSV row the formatter fails on: a blank line or an empty name field
CsvRowFails(row) == row = <<>> \/ row[1] = <<>>

\* a DB row that cannot be formatted: a NULL in it
DbRowFails(row) == \E i \in DOMAIN row : row[i] = NULL

\* C10: a row-level formatting error ends the whole run.  CSV tool: the rows
\* before the first failing row k, and only they, have their lines printed, in
\* file order; at row k the process ends with the exception and prints no more.
\* DB tool: if any row of the result fails, the exception is not caught by the
\* retry loop: the run ends with it, after no further prompt, with no attempt
\* consumed by it, and nothing is printed but the notices of the earlier
\* rejected passwords: no line of any row.
C10_ErrorAbortsRun ==
    /\ (tool = "csv" /\ pc \in {"loop", "done", "crashed"} /\ file_ok) =>
          /\ \A i \in 1..idx : ~CsvRowFails(rows[i])
          /\ Len(stdout) = idx
          /\ \A i \in 1..idx :
                stdout[i] = Printed("line", uprint(csv_formatted(rows[i]).val, enc))
          /\ (pc = "crashed" =>
                /\ idx < Len(rows) /\ CsvRowFails(rows[idx + 1])
                /\ error = "IndexError"
                /\ ~ENABLED Next)
          /\ (pc = "done" => idx = Len(rows))
    /\ (tool = "db" /\ queries = 1 /\ pc # "print") =>
          IF \E i \in DOMAIN rows : DbRowFails(rows[i])
          THEN /\ pc = "crashed" /\ error \in {"AttributeError", "TypeError"}
               /\ ~ENABLED Next
               /\ ~queried /\ built = <<>>
               /\ PrintsOf("wrong") = DOMAIN stdout
               /\ prompts = (Attempts - attempts_left) + 1
               /\ Len(stdout) = Attempts - attempts_left
          ELSE pc = "done" /\ Len(built) = Len(rows)

\* C10: the CSV tool has failed on its second row, after printing the first.
C10_Witness ==
    /\ tool = "csv" /\ pc = "crashed" /\ idx = 1 /\ Len(rows) = 2
    /\ Len(stdout) = 1

---------------------------------------------------------------------------
(* The claims about the formatter alone, under SpecFmt *)

Formatted == pc \in {"fmt_once", "fmt_twice"}

\* C4 as claimed: for a non-empty raw name the identifier returned holds no two
\* consecutive underscores, in either tool.
C4_NoDoubleUnderscore ==
    (Formatted /\ raw # <<>> /\ once.err = "") => ~HasDoubleUnderscore(once.val)

\* C5 as claimed: for a non-empty raw name with no leading or trailing
\* whitespace and no leading underscore, with empty prefix and suffix, the
\* formatter applied to its own result returns that result.
C5_Idempotent ==
    (/\ pc = "fmt_twice"
     /\ raw # <<>> /\ strip(raw) = raw /\ raw[1] # "_"
     /\ remove_prefix = <<>> /\ remove_suffix = <<>>) =>
        twice = once

\* the constant-cased, underscore-collapsed name of steps 1 to 5
Collapsed == replace_double_underscore(
                 constcase(IF tool = "csv" THEN raw
                           ELSE Stripped(raw, remove_prefix, remove_suffix)))

\* C8 as claimed: when the constant-cased, underscore-collapsed result begins
\* with an underscore the formatter of either tool returns it without that one
\* underscore, so "_internalFlag" gives "INTERNAL_FLAG".
C8_LeadingUnderscoreRemoved ==
    (Formatted /\ once.err = "") =>
        /\ (Collapsed # <<>> /\ Collapsed[1] = "_") => once.val = Tail(Collapsed)
        /\ (raw = InternalFlag /\ remove_prefix = <<>> /\ remove_suffix = <<>>) =>
                once.val = <<"I","N","T","E","R","N","A","L","_","F","L","A","G">>

\* C9: format_attr trims the raw name, removes the prefix only if it is
\* non-empty and the trimmed name starts with it, then removes the suffix only
\* if it is non-empty and what is left ends with it, and only then converts the
\* case; an empty or non-matching prefix or suffix removes nothing;
\* "tbl_statusCode" with prefix "tbl_" gives "STATUS_CODE" and "customer_id"
\* with suffix "_id" gives "CUSTOMER".
C9_StripThenConvert ==
    (tool = "db" /\ Formatted) =>
        /\ once = Returned(replace_double_underscore(
                               constcase(Stripped(raw, remove_prefix, remove_suffix))))
        /\ (/\ ~StartsWith(strip(raw), remove_prefix)
            /\ ~EndsWith(strip(raw), remove_suffix)) =>
                once.val = replace_double_underscore(constcase(strip(raw)))
        /\ (remove_prefix = <<>> /\ remove_suffix = <<>>) =>
                once.val = replace_double_underscore(constcase(strip(raw)))
        /\ (raw = TblStatusCode /\ remove_prefix = Tbl /\ remove_suffix = <<>>) =>
                once.val = <<"S","T","A","T","U","S","_","C","O","D","E">>
        /\ (raw = CustomerId /\ remove_prefix = <<>> /\ remove_suffix = Id) =>
                once.val = <<"C","U","S","T","O","M","E","R">>

\* C9: a name with surrounding whitespace has lost a prefix and a suffix, and
\* something is left of it.
C9_Witness ==
    /\ tool = "db" /\ pc = "fmt_once"
    /\ strip(raw) # raw
    /\ remove_prefix # <<>> /\ StartsWith(strip(raw), remove_prefix)
    /\ remove_suffix # <<>>
    /\ EndsWith(WithoutPrefix(strip(raw), remove_prefix), remove_suffix)
    /\ once.err = "" /\ once.val # <<>>

=============================================================================
